---------------------------- MODULE Spec2Model ----------------------------
(***************************************************************************)
(* Model of the Phon query batch pipeline (Phon_query_to_csv.py and its    *)
(* older variant failed.py):                                               *)
(*   merge_csv          - byte-level concatenation of the staged files     *)
(*   calculate_accuracy - Accuracy / Deletion / Substitution columns       *)
(*   column_match       - rename / reindex against a column key            *)
(*                                                                         *)
(* pandas tables are modelled column-wise: a DataFrame is a record         *)
(*   [columns : Seq(label), dtypes : Seq(dtype), data : Seq(Seq(value)),   *)
(*    n : number of rows]                                                  *)
(* and a csv file on disk is a record                                      *)
(*   [columns : Seq(label), cells : Seq(Seq(text)), n : number of rows]    *)
(* whose cells are the texts between the separators.                       *)
(***************************************************************************)
EXTENDS Integers, Sequences, FiniteSets, TLC

VARIABLES
    tables,         \* csv files the pandas stages read and write: path -> file or Absent
    accuracy_call,  \* the last calculate_accuracy call: its argument, what it read, its df
    column_key,     \* the key file: [target_cols, actual_cols] (its third and fourth row)
    table_to_modify,\* the DataFrame the last column_match call was given
    match_result,   \* what the last column_match call did
    passes,         \* how many column_match calls were made
    dirs,           \* the directories that exist under Compiled
    uniform_files,  \* Compiled/uniform_files: file name -> its lines
    merged_files,   \* Compiled/merged_files as merge_csv writes it: file name -> its lines
    merge_call,     \* the last merge_csv call: its arguments, what glob gave it, its result
    directory,      \* the root directory gen_csv walks: its path, listing and files
    staged,         \* Compiled/uniform_files as gen_csv writes it: file name -> table,
                    \* the input file it was made from and the run that wrote it
    gen_call,       \* the last gen_csv call: what it read, skipped, wrote and returned
    expander_call,  \* the last phone_data_expander call: its argument and how it ended
    wrapper,        \* phon_query_to_csv: its local filepath and the calls it has made
    pc              \* which stage ran last

accuracyVars == <<accuracy_call>>

matchVars == <<column_key, table_to_modify, match_result, passes>>

mergeVars == <<dirs, uniform_files, merged_files, merge_call>>

genVars == <<directory, staged, gen_call>>

expanderVars == <<expander_call>>

vars == <<tables, accuracy_call, column_key, table_to_modify, match_result, passes,
          dirs, uniform_files, merged_files, merge_call, directory, staged, gen_call,
          expander_call, wrapper, pc>>

(***************************************************************************)
(* Bounds of the model.                                                    *)
(***************************************************************************)
MaxRows == 1

MaxKeyLen == 2

MaxPasses == 2

MaxDataLines == 1

(***************************************************************************)
(* Generic sequence helpers.                                               *)
(***************************************************************************)
Range(s) == {s[i] : i \in 1..Len(s)}

IndexOf(s, x) == CHOOSE i \in 1..Len(s) : s[i] = x /\ \A j \in 1..(i - 1) : s[j] # x

SeqsUpTo(S, n) == UNION {[1..k -> S] : k \in 0..n}

\* "_".join(tokens)
RECURSIVE join(_)
join(tokens) ==
    IF Len(tokens) = 1 THEN tokens[1]
    ELSE tokens[1] \o "_" \o join(Tail(tokens))

(***************************************************************************)
(* Values of a loaded table.  A missing value (numpy NaN) is the token     *)
(* NaN; no text cell can load as the string "NaN" because pandas reads     *)
(* that text as a missing value too, so the token collides with nothing.   *)
(***************************************************************************)
NaN == "NaN"

\* The 'no segment' symbol, U+2205 (written in ASCII here).
NoSegment == "U+2205"

\* Texts pandas.read_csv turns into a missing value (its default na_values;
\* the ones the model's cells can hold).
NaValues == {"", "NA", "NaN"}

\* Cell texts of the transcription columns the model draws from.
CellText == {"", " ", "  ", NoSegment, "t", "d", "NA"}

Absent == [columns |-> <<"<absent>">>, cells |-> <<>>, n |-> 0 - 1]


(***************************************************************************)
(* DataFrame primitives.                                                   *)
(***************************************************************************)
HasCol(df, label) == label \in Range(df.columns)

\* df[label]: the data of the column with that label.
Col(df, label) == df.data[IndexOf(df.columns, label)]

\* df[label] = values: an existing column is replaced where it stands, a new
\* one is appended as the last column.
SetCol(df, label, dtype, values) ==
    IF HasCol(df, label)
    THEN [df EXCEPT !.dtypes[IndexOf(df.columns, label)] = dtype,
                    !.data[IndexOf(df.columns, label)] = values]
    ELSE [df EXCEPT !.columns = Append(df.columns, label),
                    !.dtypes = Append(df.dtypes, dtype),
                    !.data = Append(df.data, values)]

\* Elementwise == and != of two loaded values: a missing value equals nothing,
\* itself included.
PdEq(a, b) == a # NaN /\ b # NaN /\ a = b

PdNe(a, b) == ~PdEq(a, b)

(***************************************************************************)
(* pandas.read_csv and DataFrame.to_csv, on the cells the model holds:     *)
(* a column whose cells are all "0" or "1" loads as int64, a column of     *)
(* missing values only as float64, any other column as object (str/NaN).   *)
(***************************************************************************)
IntTexts == {"0", "1"}

ParseInt(text) == IF text = "0" THEN 0 ELSE 1

IntText(v) == IF v = 0 THEN "0" ELSE "1"

InferDtype(texts) ==
    IF Len(texts) > 0 /\ \A i \in 1..Len(texts) : texts[i] \in IntTexts THEN "int64"
    ELSE IF Len(texts) > 0 /\ \A i \in 1..Len(texts) : texts[i] \in NaValues THEN "float64"
    ELSE "object"

ReadCell(text) == IF text \in NaValues THEN NaN ELSE text

WriteCell(v) == IF v = NaN THEN "" ELSE v

read_csv(file) ==
    [columns |-> file.columns,
     dtypes  |-> [j \in 1..Len(file.columns) |-> InferDtype(file.cells[j])],
     data    |-> [j \in 1..Len(file.columns) |->
                    IF InferDtype(file.cells[j]) = "int64"
                    THEN [i \in 1..file.n |-> ParseInt(file.cells[j][i])]
                    ELSE [i \in 1..file.n |-> ReadCell(file.cells[j][i])]],
     n       |-> file.n]

to_csv(df) ==
    [columns |-> df.columns,
     cells   |-> [j \in 1..Len(df.columns) |->
                    IF df.dtypes[j] = "int64"
                    THEN [i \in 1..df.n |-> IntText(df.data[j][i])]
                    ELSE [i \in 1..df.n |-> WriteCell(df.data[j][i])]],
     n       |-> df.n]

(***************************************************************************)
(* Paths: a directory and a file name.                                     *)
(***************************************************************************)
MergedName == "AllPart_AllLang_AllAnalyses_data.csv"

output_filename == "data_accuracy.csv"

Path(dir, name) == [dir |-> dir, name |-> name]

dirname(path) == path.dir

compatible_data == "compatible_data.csv"

full_annotated_dataset == "full_annotated_dataset.csv"

Paths ==
    {Path("merged_files", name) :
        name \in {MergedName, output_filename, compatible_data, full_annotated_dataset}}

(***************************************************************************)
(* calculate_accuracy                                                      *)
(***************************************************************************)
\* accurate_mask comparing missing values as equal to each other.
accurate_mask_nan_equal(df) ==
    [i \in 1..df.n |-> Col(df, "IPA Target")[i] = Col(df, "IPA Actual")[i]]

accurate_mask(df) ==
    [i \in 1..df.n |-> PdEq(Col(df, "IPA Target")[i], Col(df, "IPA Actual")[i])]

DeletionValues == {"", " ", NoSegment}

deletion_mask(df) ==
    [i \in 1..df.n |-> \/ Col(df, "IPA Actual")[i] \in DeletionValues
                       \/ Col(df, "IPA Actual")[i] = NaN]

\* substitution_mask without the deletion exclusion (the source's unused
\* inaccurate_mask).
substitution_mask_inaccurate(df) ==
    [i \in 1..df.n |-> PdNe(Col(df, "IPA Target")[i], Col(df, "IPA Actual")[i])]

substitution_mask(df) ==
    [i \in 1..df.n |-> /\ PdNe(Col(df, "IPA Target")[i], Col(df, "IPA Actual")[i])
                       /\ ~deletion_mask(df)[i]]

\* df[label] = 0 followed by df.loc[mask, label] = 1.
Indicator(mask) == [i \in DOMAIN mask |-> IF mask[i] THEN 1 ELSE 0]

AccuracyColumns(df) ==
    SetCol(SetCol(SetCol(df,
        "Accuracy", "int64", Indicator(accurate_mask(df))),
        "Deletion", "int64", Indicator(deletion_mask(df))),
        "Substitution", "int64", Indicator(substitution_mask(df)))

output_filepath(filepath) == Path(dirname(filepath), output_filename)

NoCall == [filepath |-> Path("", ""), output_filepath |-> Path("", ""),
           input |-> Absent,
           df |-> [columns |-> <<>>, dtypes |-> <<>>, data |-> <<>>, n |-> 0]]

CalculateAccuracy(filepath) ==
    /\ tables[filepath] # Absent
    /\ LET df == AccuracyColumns(read_csv(tables[filepath]))
       IN /\ tables' = [tables EXCEPT ![output_filepath(filepath)] = to_csv(df)]
          /\ accuracy_call' = [filepath        |-> filepath,
                               output_filepath |-> output_filepath(filepath),
                               input           |-> tables[filepath],
                               df              |-> df]
    /\ pc' = "calculate_accuracy"
    /\ UNCHANGED <<matchVars, mergeVars, genVars, expanderVars>>

(***************************************************************************)
(* column_match                                                            *)
(***************************************************************************)
\* Column labels of the tables and keys the model draws from.
Names == {"A", "B", "X"}

Min(a, b) == IF a < b THEN a ELSE b

HasDuplicates(s) == \E i, j \in 1..Len(s) : i # j /\ s[i] = s[j]

\* The membership test the other way round: the entries that do occur.
OccurringIn(xs, ys) == SelectSeq(xs, LAMBDA col : col \in Range(ys))

\* [col for col in xs if col not in ys]
NotIn(xs, ys) == SelectSeq(xs, LAMBDA col : col \notin Range(ys))

\* DataFrame.rename(columns={old: new}): every label equal to old becomes new;
\* a missing old is no error, and nothing keeps the labels distinct.
rename(df, old, new) ==
    [df EXCEPT !.columns = [j \in 1..Len(df.columns) |->
                               IF df.columns[j] = old THEN new ELSE df.columns[j]]]

\* The rename loop over zip(target_cols, actual_cols), pairs k..: one rename
\* after the other, each on the table the previous one left.
RECURSIVE RenameFrom(_, _, _, _)
RenameFrom(df, target_cols, actual_cols, k) ==
    IF k > Min(Len(target_cols), Len(actual_cols)) THEN df
    ELSE IF actual_cols[k] = "" THEN RenameFrom(df, target_cols, actual_cols, k + 1)
    ELSE IF target_cols[k] # actual_cols[k]
         THEN RenameFrom(rename(df, actual_cols[k], target_cols[k]),
                         target_cols, actual_cols, k + 1)
         ELSE RenameFrom(df, target_cols, actual_cols, k + 1)

RenameLoop(df, target_cols, actual_cols) == RenameFrom(df, target_cols, actual_cols, 1)

\* DataFrame.reindex(columns=target_cols) raises ValueError ("cannot reindex on
\* an axis with duplicate labels") when the labels differ from target_cols and
\* are not unique.
ReindexRaises(df, target_cols) ==
    df.columns # target_cols /\ HasDuplicates(df.columns)

EmptyColumn(n) == [i \in 1..n |-> NaN]

\* reindex that leaves out the target columns the table lacks.
reindex_existing_only(df, target_cols) ==
    LET kept == SelectSeq(target_cols, LAMBDA col : HasCol(df, col))
    IN [columns |-> kept,
        dtypes  |-> [j \in 1..Len(kept) |-> df.dtypes[IndexOf(df.columns, kept[j])]],
        data    |-> [j \in 1..Len(kept) |-> Col(df, kept[j])],
        n       |-> df.n]

\* reindex that relabels the columns by position instead of aligning them by
\* label (new_table.columns = target_cols).
reindex_by_position(df, target_cols) ==
    [columns |-> target_cols,
     dtypes  |-> [j \in 1..Len(target_cols) |->
                     IF j <= Len(df.columns) THEN df.dtypes[j] ELSE "float64"],
     data    |-> [j \in 1..Len(target_cols) |->
                     IF j <= Len(df.columns) THEN df.data[j] ELSE EmptyColumn(df.n)],
     n       |-> df.n]

\* DataFrame.reindex(columns=target_cols) where it does not raise: the columns
\* become target_cols; a label the table has brings its data, a label it lacks
\* is a column of missing values; the rows stay.
reindex(df, target_cols) ==
    IF df.columns = target_cols THEN df
    ELSE [columns |-> target_cols,
          dtypes  |-> [j \in 1..Len(target_cols) |->
                          IF HasCol(df, target_cols[j])
                          THEN df.dtypes[IndexOf(df.columns, target_cols[j])]
                          ELSE "float64"],
          data    |-> [j \in 1..Len(target_cols) |->
                          IF HasCol(df, target_cols[j]) THEN Col(df, target_cols[j])
                          ELSE EmptyColumn(df.n)],
          n       |-> df.n]

\* "Check new table": the first test passes when the columns are target_cols;
\* otherwise its elif compares an int with a list, a TypeError.
CheckRaises(new_table, target_cols) == new_table.columns # target_cols

\* The mismatch loop over zip(new_table.columns, target_cols).
valid_transformation(new_table, target_cols) ==
    \A i \in 1..Min(Len(new_table.columns), Len(target_cols)) :
        new_table.columns[i] = target_cols[i]

EmptyFrame == [columns |-> <<>>, dtypes |-> <<>>, data |-> <<>>, n |-> 0]

NoMatch == [outcome |-> "none", renamed |-> EmptyFrame, new_table |-> EmptyFrame,
            actual_cols_omitted_renamed |-> <<>>, actual_cols_added |-> <<>>,
            checked |-> FALSE, valid |-> FALSE, written |-> FALSE]

match_output_filepath == Path("merged_files", compatible_data)

\* One call column_match(table): outcome "returned" with the result tuple
\* and the file written, or the error that ended it.
ColumnMatch(table) ==
    LET target_cols == column_key.target_cols
        actual_cols == column_key.actual_cols
        omitted == NotIn(table.columns, actual_cols)
        added == NotIn(actual_cols, table.columns)
        renamed == RenameLoop(table, target_cols, actual_cols)
        new_table == reindex(renamed, target_cols)
        base == [NoMatch EXCEPT !.renamed = renamed,
                                !.actual_cols_omitted_renamed = omitted,
                                !.actual_cols_added = added]
    IN /\ passes < MaxPasses
       /\ passes' = passes + 1
       /\ table_to_modify' = table
       /\ pc' = "column_match"
       /\ UNCHANGED <<column_key, accuracyVars, mergeVars, genVars, expanderVars>>
       /\ IF ReindexRaises(renamed, target_cols)
          THEN /\ match_result' = [base EXCEPT !.outcome = "ValueError"]
               /\ UNCHANGED tables
          ELSE IF CheckRaises(new_table, target_cols)
          THEN /\ match_result' = [base EXCEPT !.outcome = "TypeError",
                                               !.new_table = new_table,
                                               !.checked = TRUE]
               /\ UNCHANGED tables
          ELSE /\ match_result' = [base EXCEPT
                                      !.outcome = "returned",
                                      !.new_table = new_table,
                                      !.checked = TRUE,
                                      !.valid = valid_transformation(new_table, target_cols),
                                      !.written = TRUE]
               /\ tables' = [tables EXCEPT ![match_output_filepath] = to_csv(new_table)]

\* First pass: on the source table.
FirstPass == passes = 0 /\ ColumnMatch(table_to_modify)

\* Another pass: on the table the previous pass returned.
NextPass == passes > 0 /\ match_result.outcome = "returned" /\ ColumnMatch(match_result.new_table)

(***************************************************************************)
(* merge_csv                                                               *)
(*                                                                         *)
(* A staged file is the sequence of its lines, each ended by its line      *)
(* break (DataFrame.to_csv ends every line it writes): line 1 is the       *)
(* header, the others the data lines.  A line is named by the file it was  *)
(* first written to and its row there, so a copy can be traced.            *)
(* A file name is the sequence of the fields the Normalizer joined with    *)
(* "_"; a glob pattern *a*b* matches a name in which a and b occur in      *)
(* that order.                                                             *)
(***************************************************************************)
Participants == {"P1", "P2"}

Languages == {"English", "Spanish"}

Analyses == {"Consonants"}

\* "%s_%s_%s_%s_%s_%s.csv" % (participant, language, phase, analysis, probe, probe_type)
StagedName(participant, language, analysis) ==
    <<participant, language, "Pre", analysis, "probe", "Pre">>

StagedNames ==
    {StagedName(p, l, a) : p \in Participants, l \in Languages, a \in Analyses}

HeaderLine(fname) == [file |-> fname, row |-> 0]

DataLine(fname, i) == [file |-> fname, row |-> i]

\* What to_csv wrote for a table of k rows: the header line and k data lines.
StagedLines(fname, k) == <<HeaderLine(fname)>> \o [i \in 1..k |-> DataLine(fname, i)]

DefaultParticipants == <<"AllPart">>

DefaultLanguages == <<"AllLang">>

DefaultAnalyses == <<"AllAnalyses">>

\* f"{participant}_{language}_{analysis}_data.csv"
save_name(participant, language, analysis) == <<participant, language, analysis, "data.csv">>

\* The terms between the stars of file_search_term, by the separate_* flags.
file_search_term(participant, language, analysis, sep_participants, sep_languages, sep_analyses) ==
    (IF sep_participants THEN <<participant>> ELSE <<>>)
        \o (IF sep_languages THEN <<language>> ELSE <<>>)
        \o (IF sep_analyses THEN <<analysis>> ELSE <<>>)

\* fnmatch of *t1*t2*...*.csv: the terms occur in the name, in this order.
RECURSIVE GlobMatch(_, _)
GlobMatch(terms, fname) ==
    IF terms = <<>> THEN TRUE
    ELSE IF fname = <<>> THEN FALSE
    ELSE IF Head(terms) = Head(fname) THEN GlobMatch(Tail(terms), Tail(fname))
    ELSE GlobMatch(terms, Tail(fname))

\* glob.glob: the matching files of the directory, in the directory's
\* listing order.
glob(terms, listing) ==
    SelectSeq(listing, LAMBDA fname : fname \in DOMAIN uniform_files /\ GlobMatch(terms, fname))

\* infile.readline(): what is left of the file after its first line.
AfterReadline(lines) == IF lines = <<>> THEN <<>> ELSE Tail(lines)

\* The copy loop that throws no header away.
RECURSIVE CopyKeepingHeaders(_, _)
CopyKeepingHeaders(fnames, i) ==
    IF i > Len(fnames) THEN <<>>
    ELSE uniform_files[fnames[i]] \o CopyKeepingHeaders(fnames, i + 1)

\* The copy loop from the i-th globbed file on: the header is thrown away
\* on all but the first file, the rest is copied as it is.
RECURSIVE CopyFiles(_, _)
CopyFiles(fnames, i) ==
    IF i > Len(fnames) THEN <<>>
    ELSE (IF i # 1 THEN AfterReadline(uniform_files[fnames[i]])
          ELSE uniform_files[fnames[i]])
         \o CopyFiles(fnames, i + 1)

\* The combinations the three nested loops go through, in order.
Combinations(participant_list, language_list, analysis_list) ==
    [c \in 1..(Len(participant_list) * Len(language_list) * Len(analysis_list)) |->
        [participant |-> participant_list[((c - 1) \div (Len(language_list) * Len(analysis_list))) + 1],
         language    |-> language_list[(((c - 1) \div Len(analysis_list)) % Len(language_list)) + 1],
         analysis    |-> analysis_list[((c - 1) % Len(analysis_list)) + 1]]]

Listings(S) == {f \in [1..Cardinality(S) -> S] : \A i, j \in 1..Cardinality(S) : i # j => f[i] # f[j]}

\* merged_files after the combinations c.. have been written.
RECURSIVE WriteCombinations(_, _, _, _)
WriteCombinations(files, combos, globbed, c) ==
    IF c > Len(combos) THEN files
    ELSE LET name == save_name(combos[c].participant, combos[c].language, combos[c].analysis)
             rest == [f \in DOMAIN files \ {name} |-> files[f]]
         IN WriteCombinations(rest @@ (name :> CopyFiles(globbed[c], 1)),
                              combos, globbed, c + 1)

NoMerge == [outcome |-> "none", combos |-> <<>>, globbed |-> <<>>,
            save_path |-> <<>>, separate |-> <<FALSE, FALSE, FALSE>>,
            participant_list |-> <<>>, language_list |-> <<>>, analysis_list |-> <<>>]

\* The argument check that looks at the participant list only.
AssertionFailsParticipantsOnly(participant_list, language_list, analysis_list, separate_participants, separate_languages, separate_analyses) ==
    participant_list # DefaultParticipants /\ ~separate_participants

\* "Check for correct arguments": one of the three asserts fails.
AssertionFails(participant_list, language_list, analysis_list, separate_participants, separate_languages, separate_analyses) ==
    \/ (participant_list # DefaultParticipants /\ ~separate_participants)
    \/ (language_list # DefaultLanguages /\ ~separate_languages)
    \/ (analysis_list # DefaultAnalyses /\ ~separate_analyses)

\* merge_csv on Compiled: the argument check, the directory, the output
\* files and what it returns.
merge_csv(participant_list, language_list, analysis_list, separate_participants, separate_languages, separate_analyses) ==
    /\ IF AssertionFails(participant_list, language_list, analysis_list,
                         separate_participants, separate_languages, separate_analyses)
       THEN /\ merge_call' = [NoMerge EXCEPT
                                 !.outcome = "AssertionError",
                                 !.separate = <<separate_participants, separate_languages,
                                                separate_analyses>>,
                                 !.participant_list = participant_list,
                                 !.language_list = language_list,
                                 !.analysis_list = analysis_list]
            /\ UNCHANGED <<dirs, merged_files>>
       ELSE \E listing \in Listings(DOMAIN uniform_files) :
              LET combos == Combinations(participant_list, language_list, analysis_list)
                  globbed == [c \in 1..Len(combos) |->
                                 glob(file_search_term(combos[c].participant,
                                                       combos[c].language,
                                                       combos[c].analysis,
                                                       separate_participants,
                                                       separate_languages,
                                                       separate_analyses),
                                      listing)]
                  last == combos[Len(combos)]
              IN /\ dirs' = dirs \cup {"merged_files"}
                 /\ merged_files' = WriteCombinations(merged_files, combos, globbed, 1)
                 /\ merge_call' = [outcome   |-> "returned",
                                   combos    |-> combos,
                                   globbed   |-> globbed,
                                   save_path |-> save_name(last.participant, last.language,
                                                           last.analysis),
                                   separate  |-> <<separate_participants, separate_languages,
                                                   separate_analyses>>,
                                   participant_list |-> participant_list,
                                   language_list    |-> language_list,
                                   analysis_list    |-> analysis_list]

\* One call of merge_csv.
MergeCsv(participant_list, language_list, analysis_list, separate_participants, separate_languages, separate_analyses) ==
    /\ pc = "start"
    /\ pc' = "merge_csv"
    /\ UNCHANGED <<tables, accuracyVars, matchVars, uniform_files, genVars, expanderVars>>
    /\ merge_csv(participant_list, language_list, analysis_list,
                 separate_participants, separate_languages, separate_analyses)

(***************************************************************************)
(* gen_csv                                                                 *)
(*                                                                         *)
(* A directory is its dirName (the components of its path), its listing   *)
(* in os.listdir order and the csv text of its files; the root also has    *)
(* its subdirectories, in the order os.walk visits them.  A regular        *)
(* expression or a split is applied to the                                 *)
(* tokens of a file name, the pieces between its "_" and before its        *)
(* extension.  Every csv file of the model has the columns Result,         *)
(* IPA Target and IPA Actual, and every Result cell is ResultText.         *)
(***************************************************************************)
FileNames ==
    {"P101_Probe1_Pre.csv", "P101_Probe1_Pre_v2.csv", "P202_Probe1_PEEP.csv",
     "Notes_Probe1_Post.csv", "P101_Probe1_Summary.csv", "desktop.ini",
     "P101_Probe1_Pre.xlsx", "P202_Probe1_Post_Accurate.csv", "P101_Probe1_Pre.xls"}

\* The names gen_csv can give a staged file: the six fields it joins with "_".
WrittenNames ==
    {<<participant, language, phase_found, analysis, probe, phase_found>> :
        participant \in {"P101", "P202", "P303"}, language \in {"English", "Spanish"},
        phase_found \in {"Pre", "Post", "unknown"}, analysis \in {"Consonants", "Vowels"},
        probe \in {"Probe1", "English", "Spanish"}}

\* "%s_%s_%s_%s_%s_%s.csv" % (...): a staged file as an entry of os.listdir.
staged_filename(name) == join(name) \o ".csv"

StagedFileNames == {staged_filename(name) : name \in WrittenNames}

\* cur_csv.split("_"), the extension taken off the last piece.
split(cur_csv) ==
    CASE cur_csv = "P101_Probe1_Pre.csv"           -> <<"P101", "Probe1", "Pre">>
      [] cur_csv = "P101_Probe1_Pre_v2.csv"        -> <<"P101", "Probe1", "Pre", "v2">>
      [] cur_csv = "P202_Probe1_PEEP.csv"          -> <<"P202", "Probe1", "PEEP">>
      [] cur_csv = "Notes_Probe1_Post.csv"         -> <<"Notes", "Probe1", "Post">>
      [] cur_csv = "P101_Probe1_Summary.csv"       -> <<"P101", "Probe1", "Summary">>
      [] cur_csv = "desktop.ini"                   -> <<"desktop">>
      [] cur_csv = "P101_Probe1_Pre.xlsx"          -> <<"P101", "Probe1", "Pre">>
      [] cur_csv = "P202_Probe1_Post_Accurate.csv" -> <<"P202", "Probe1", "Post", "Accurate">>
      [] cur_csv = "P101_Probe1_Pre.xls"           -> <<"P101", "Probe1", "Pre">>
      [] cur_csv = "uniform_files"                 -> <<"uniform", "files">>
      [] cur_csv \in StagedFileNames               ->
            CHOOSE name \in WrittenNames : staged_filename(name) = cur_csv

endswith(cur_csv, suffix) ==
    CASE suffix = ".csv"  -> cur_csv \in {"P101_Probe1_Pre.csv", "P101_Probe1_Pre_v2.csv",
                                          "P202_Probe1_PEEP.csv", "Notes_Probe1_Post.csv",
                                          "P101_Probe1_Summary.csv",
                                          "P202_Probe1_Post_Accurate.csv"}
                                  \cup StagedFileNames
      [] suffix = ".xlsx" -> cur_csv = "P101_Probe1_Pre.xlsx"
      [] suffix = ".xls"  -> cur_csv = "P101_Probe1_Pre.xls"

\* The module global query.
query == "Queries_v5_phone_listings_phrase.xml"

\* Tokens matched by participant_regex and phase_regex of the flavor "tx".
participant_regex == {"P101", "P202"}

phase_regex == {"Pre", "Post"}

\* Path components matched by the analysis pattern.
analysis_regex == {"Consonants", "Vowels"}

\* The keys of lang_dict whose value is "English".
EnglishKeys == {"PEEP", "Peep", "peep", "En", "eng"}

\* re.findall(pattern, string): the matches, from left to right.
findall(pattern, tokens) == SelectSeq(tokens, LAMBDA t : t \in pattern)

\* The four "continue" tests at the head of the loop over os.listdir(dirName).
Skipped(cur_csv) ==
    \/ cur_csv = "desktop.ini"
    \/ cur_csv = "Report Template.txt"
    \/ cur_csv = "Report.html"
    \/ "Summary" \in Range(split(cur_csv))

\* The files the loop body loads: not skipped, and "Include only CSV files".
Loaded(cur_csv) == ~Skipped(cur_csv) /\ endswith(cur_csv, ".csv")

\* The phase with the default "Pre" in the place of "unknown".
phase_default_pre(cur_csv) ==
    IF findall(phase_regex, split(cur_csv)) = <<>> THEN "Pre"
    ELSE findall(phase_regex, split(cur_csv))[1]

\* phase = next((match for match in re.findall(phase_regex, cur_csv) if match), "unknown")
phase(cur_csv) ==
    IF findall(phase_regex, split(cur_csv)) = <<>> THEN "unknown"
    ELSE findall(phase_regex, split(cur_csv))[1]

lang(cur_csv) ==
    IF \E key \in EnglishKeys : key \in Range(split(cur_csv)) THEN "English" ELSE "Spanish"

\* The Result text of the model's rows, "<->" standing for the alignment arrow.
ResultText == "t<->d; toe, to, do, t<->d,o<->o"

derive_keys ==
    <<"IPA Alignment", "Tiers", "Notes", "Orthography", "IPA Target Words",
      "IPA Actual Words", "IPA Alignment Words">>

\* derive_dict[key](x) for x = ResultText.
derive_dict(key) ==
    CASE key = "IPA Alignment"       -> "t<->d"
      [] key = "Tiers"               -> "toe, to, do, t<->d,o<->o"
      [] key = "Notes"               -> ""
      [] key = "Orthography"         -> "toe"
      [] key = "IPA Target Words"    -> "to"
      [] key = "IPA Actual Words"    -> "do"
      [] key = "IPA Alignment Words" -> "t<->d"

\* The script g (U+0261) that the letter g is replaced by.
ScriptG == "U+0261"

\* Series.replace({'g': script g}, regex=True) on one value of the model: a
\* missing value stays missing, the g of a text is replaced.
replace_g(v) == IF v = "g" THEN ScriptG ELSE v

\* df[label] = scalar
SetScalar(df, label, v) == SetCol(df, label, "object", [i \in 1..df.n |-> v])

\* for key in derive_dict.keys(): df[key] = df["Result"].apply(derive_dict[key])
RECURSIVE Derive(_, _)
Derive(df, k) ==
    IF k > Len(derive_keys) THEN df
    ELSE Derive(SetScalar(df, derive_keys[k], derive_dict(derive_keys[k])), k + 1)

\* df[label] = df[label].replace({'g': script g}, regex=True)
ReplaceIn(df, label) ==
    [df EXCEPT !.data[IndexOf(df.columns, label)] =
                   [i \in 1..df.n |-> replace_g(df.data[IndexOf(df.columns, label)][i])]]

NoError == [type |-> "none", message |-> <<>>]

\* The body of the loop for one loaded file: the exception it ends with (its
\* message as the pieces it is formatted from), or the DataFrame it writes
\* and the name it writes it under.
ProcessFile(dirName, cur_csv, file) ==
    LET df0 == rename(rename(read_csv(file), "Record #", "Record"), "Group #", "Group")
        df1 == SetScalar(SetScalar(df0, "filename", cur_csv), "Query Source", query)
        analyses == findall(analysis_regex, dirName)
        participants == findall(participant_regex, split(cur_csv))
    IN IF analyses = <<>>
       THEN [error |-> [type |-> "IndexError", message |-> <<"list index out of range">>]]
       ELSE IF participants = <<>>
       THEN [error |-> [type |-> "IndexError",
                        message |-> <<"No participant found in filename">>]]
       ELSE LET analysis == analyses[1]
                participant == participants[1]
                probe == split(cur_csv)[2]
                df2 == SetScalar(SetScalar(SetScalar(SetScalar(SetScalar(df1,
                           "Analysis", analysis),
                           "Phase", phase(cur_csv)),
                           "Language", lang(cur_csv)),
                           "Participant", participant),
                           "Speaker", participant)
                df3 == SetScalar(SetScalar(df2, "Probe", probe), "Probe Type", phase(cur_csv))
                df4 == ReplaceIn(ReplaceIn(Derive(df3, 1), "IPA Target"), "IPA Actual")
            IN [error |-> NoError,
                participant |-> participant,
                language |-> lang(cur_csv),
                phase |-> phase(cur_csv),
                analysis |-> analysis,
                probe |-> probe,
                \* "%s_%s_%s_%s_%s_%s.csv" % (participant, language, phase,
                \*                            analysis, probe, probe_type)
                name |-> <<participant, lang(cur_csv), phase(cur_csv), analysis,
                           probe, phase(cur_csv)>>,
                df |-> df4]

\* The local variables of gen_csv before the walk.
StartOfWalk(files) ==
    [file_count |-> 0, participant_list |-> <<>>, phase_list |-> <<>>,
     language_list |-> <<>>, analysis_list |-> <<>>, probe_list |-> <<>>,
     probe_type |-> "<unbound>", staged |-> files, read |-> <<>>, skipped |-> <<>>,
     written |-> <<>>, error |-> NoError, file |-> "",
     visited |-> <<>>, warnings |-> <<>>, read_from |-> <<>>]

\* The loop over os.listdir(dirName) from the i-th entry on.
RECURSIVE WalkFiles(_, _, _)
WalkFiles(dir, i, acc) ==
    IF i > Len(dir.listing) THEN acc
    ELSE LET cur_csv == dir.listing[i]
             done == ProcessFile(dir.dirName, cur_csv, dir.files[cur_csv])
         IN IF ~Loaded(cur_csv)
            THEN WalkFiles(dir, i + 1, [acc EXCEPT !.skipped = Append(@, cur_csv)])
            ELSE IF done.error # NoError
            THEN [acc EXCEPT !.file_count = @ + 1,
                             !.read = Append(@, cur_csv),
                             !.read_from = Append(@, dir.dirName),
                             !.error = done.error,
                             !.file = cur_csv]
            ELSE WalkFiles(dir, i + 1,
                    [acc EXCEPT
                       !.file_count = @ + 1,
                       !.read = Append(@, cur_csv),
                       !.read_from = Append(@, dir.dirName),
                       !.participant_list = Append(@, done.participant),
                       !.phase_list = Append(@, done.phase),
                       !.language_list = Append(@, done.language),
                       !.analysis_list = Append(@, done.analysis),
                       !.probe_list = Append(@, done.probe),
                       !.probe_type = done.phase,
                       !.written = Append(@, [source |-> cur_csv, name |-> done.name]),
                       !.staged = [f \in DOMAIN @ \ {done.name} |-> @[f]]
                                    @@ (done.name :> [table  |-> to_csv(done.df),
                                                      source |-> cur_csv,
                                                      run    |-> "current"])])

\* The three checks at the head of a visited directory: what is logged and
\* for which directory.  Nothing is raised and nothing is skipped.
Warnings(dir) ==
    (IF \E i \in 1..Len(dir.listing) : endswith(dir.listing[i], ".xls")
     THEN <<[kind |-> "Excel files", dirName |-> dir.dirName]>> ELSE <<>>)
    \o (IF \E i \in 1..Len(dir.listing) : endswith(dir.listing[i], ".xlsx")
        THEN <<[kind |-> "Excel files", dirName |-> dir.dirName]>> ELSE <<>>)
    \o (IF ~\E i \in 1..Len(dir.listing) : endswith(dir.listing[i], ".csv")
        THEN <<[kind |-> "No .csv files", dirName |-> dir.dirName]>> ELSE <<>>)

\* The body of the loop over os.walk for one directory: the checks, then the
\* loop over its files.
VisitDir(dir, acc) ==
    WalkFiles(dir, 1, [acc EXCEPT !.visited = Append(@, dir.dirName),
                                  !.warnings = @ \o Warnings(dir)])

\* The two directories of the Compiled tree gen_csv makes, as os.walk finds
\* them under the root; what they hold is listed when they are visited.
CompiledDir(root) ==
    [dirName |-> Append(root.dirName, "Compiled"), listing |-> <<"uniform_files">>,
     files |-> <<>>]

UniformFilesDir(root) ==
    [dirName |-> root.dirName \o <<"Compiled", "uniform_files">>, listing |-> <<>>,
     files |-> <<>>]

\* A sequence of the elements of a set.
RECURSIVE SeqOf(_)
SeqOf(S) ==
    IF S = {} THEN <<>>
    ELSE LET x == CHOOSE y \in S : TRUE IN <<x>> \o SeqOf(S \ {x})

\* os.listdir(dirName) and the files read from it, at the time the directory
\* is visited: Compiled/uniform_files holds the files staged so far.
listdir(dir, files) ==
    IF dir.dirName[Len(dir.dirName)] = "uniform_files"
    THEN [dir EXCEPT
            !.listing = [i \in 1..Cardinality(DOMAIN files) |->
                            staged_filename(SeqOf(DOMAIN files)[i])],
            !.files = [cur_csv \in {staged_filename(name) : name \in DOMAIN files} |->
                          files[split(cur_csv)].table]]
    ELSE dir

\* The scan of the root made after the body of the loop had created Compiled.
ScanAfterMakedirs(existed, removed) == TRUE

\* os.walk scans a directory before it yields it: the root's subdirectories
\* are those there before the loop body runs, Compiled among them only if
\* it existed and was not removed.
ScanFindsCompiled(existed, removed) == existed /\ ~removed

\* subdirList of the root, in the order os.walk goes on with.
subdirList(root, existed, removed) ==
    (IF ScanFindsCompiled(existed, removed)
     THEN <<CompiledDir(root), UniformFilesDir(root)>> ELSE <<>>)
    \o root.subdirs

\* The loop over os.walk from the k-th of the directories on; an exception
\* ends it.
RECURSIVE WalkDirs(_, _, _)
WalkDirs(pending, k, acc) ==
    IF k > Len(pending) \/ acc.error # NoError THEN acc
    ELSE WalkDirs(pending, k + 1, VisitDir(listdir(pending[k], acc.staged), acc))

\* set(probe_type): the characters of the last file's probe type.
set_of_str(text) ==
    CASE text = "Pre"     -> {"P", "r", "e"}
      [] text = "Post"    -> {"P", "o", "s", "t"}
      [] text = "unknown" -> {"u", "n", "k", "o", "w"}

NoReturn == [file_count |-> 0 - 1]

NoDirectory == [dirName |-> <<>>, listing |-> <<>>, files |-> <<>>, subdirs |-> <<>>]

NoGen == [outcome |-> "none", prompted |-> FALSE, response |-> "", error |-> NoError,
          file |-> "", file_count |-> 0, read |-> <<>>, skipped |-> <<>>,
          written |-> <<>>, result |-> NoReturn,
          visited |-> <<>>, warnings |-> <<>>, read_from |-> <<>>]

\* The test that never finds Compiled.
CompiledNeverFound == FALSE

\* "Compiled" in os.listdir(directory)
CompiledExists == dirs # {}

\* response.lower()
lower(response) == IF response = "Y" THEN "y" ELSE response

\* The deletion left out.
rmtree_nothing(files) == files

\* shutil.rmtree(os.path.join(directory, 'Compiled')) on the files of a directory
\* under Compiled.
rmtree(files) == <<>>

\* gen_csv(directory) where Compiled/uniform_files holds the files before;
\* response is what the user types if asked.
gen_csv(response, before) ==
    IF CompiledExists /\ lower(response) # "y"
    THEN /\ gen_call' = [NoGen EXCEPT !.outcome = "SystemExit", !.prompted = TRUE,
                                      !.response = response]
         /\ staged' = before
         /\ UNCHANGED <<tables, dirs, uniform_files, merged_files>>
    ELSE \E acc \in {WalkDirs(<<directory>>
                             \o subdirList(directory, CompiledExists,
                                           CompiledExists /\ lower(response) = "y"),
                         1,
                         StartOfWalk(IF CompiledExists THEN rmtree(before) ELSE before))} :
            /\ dirs' = {"uniform_files"}
            /\ staged' = acc.staged
            /\ uniform_files' = [fname \in DOMAIN acc.staged |->
                                    StagedLines(fname, acc.staged[fname].table.n)]
            /\ merged_files' = IF CompiledExists THEN rmtree(merged_files)
                               ELSE merged_files
            /\ tables' = IF CompiledExists THEN [p \in Paths |-> Absent] ELSE tables
            /\ gen_call' =
                  [outcome    |-> IF acc.error # NoError THEN acc.error.type
                                  ELSE IF acc.file_count = 0 THEN "UnboundLocalError"
                                  ELSE "returned",
                   prompted   |-> CompiledExists,
                   response   |-> IF CompiledExists THEN response ELSE "",
                   error      |-> acc.error,
                   file       |-> acc.file,
                   file_count |-> acc.file_count,
                   read       |-> acc.read,
                   skipped    |-> acc.skipped,
                   written    |-> acc.written,
                   visited    |-> acc.visited,
                   warnings   |-> acc.warnings,
                   read_from  |-> acc.read_from,
                   result     |->
                      IF acc.error # NoError \/ acc.file_count = 0 THEN NoReturn
                      ELSE [participants |-> Range(acc.participant_list),
                            phases       |-> Range(acc.phase_list),
                            languages    |-> Range(acc.language_list),
                            analyses     |-> Range(acc.analysis_list),
                            probes       |-> Range(acc.probe_list),
                            probe_type   |-> set_of_str(acc.probe_type),
                            file_count   |-> acc.file_count]]

\* One call of gen_csv.
GenCsv(response) ==
    /\ pc = "start"
    /\ pc' = "gen_csv"
    /\ UNCHANGED <<directory, accuracyVars, matchVars, merge_call, expanderVars>>
    /\ gen_csv(response, staged)

\* What an earlier call left in Compiled/uniform_files, seen from the next.
Previous(files) == [fname \in DOMAIN files |-> [files[fname] EXCEPT !.run = "previous"]]

\* The next call of gen_csv on the same root.
GenCsvAgain(response) ==
    /\ pc = "gen_csv"
    /\ pc' = "gen_csv again"
    /\ UNCHANGED <<directory, accuracyVars, matchVars, merge_call, expanderVars>>
    /\ gen_csv(response, Previous(staged))

(***************************************************************************)
(* phone_data_expander                                                     *)
(*                                                                         *)
(* The transcriptions of the model's rows are one segment long, a segment  *)
(* being one character.  ipa_map.ph_element is a lookup outside this       *)
(* repository: the feature of a segment is written as the segment and the  *)
(* property it was asked for.                                              *)
(***************************************************************************)
\* The characters of a transcription of the model.
chars(text) == <<text>>

\* Series.str[k] on one value: the k-th character, missing where there is none.
str_get(v, k) ==
    IF v = NaN THEN NaN
    ELSE IF k + 1 <= Len(chars(v)) THEN chars(v)[k + 1]
    ELSE NaN

\* Series.str.len() on one value, -1 standing for a missing length.
str_len(v) == IF v = NaN THEN 0 - 1 ELSE Len(chars(v))

\* np.where(len == 1, 'C', np.where(len == 2, 'CC', 'CCC'))
target_type(v) ==
    IF str_len(v) = 1 THEN "C" ELSE IF str_len(v) = 2 THEN "CC" ELSE "CCC"

\* Elementwise + of text columns: missing where an operand is missing.
PdAdd(a, b) == IF a = NaN \/ b = NaN THEN NaN ELSE a \o b

\* Series.fillna('') on one value.
fillna(v) == IF v = NaN THEN "" ELSE v

\* getattr(ipa_map.ph_element(x), prop, ''): a missing value has no features.
ph_element(x, prop) == IF x = NaN THEN "" ELSE x \o "." \o prop

\* lambda x: getattr(ipa_map.ph_element(x), prop, '') if x else ''
feature(x, prop) == IF x = "" THEN "" ELSE ph_element(x, prop)

segment_columns == <<"T1", "T2", "T3", "A1", "A2", "A3", "A4", "A5">>

properties == <<"voice", "place", "manner", "sonority">>

columns_more == <<"IPA Target", "IPA Actual">>

properties_more == <<"voice", "place", "manner", "sonority", "EML">>

\* df[label] = df[source].str[k]
SetSegment(df, label, source, k) ==
    SetCol(df, label, "object", [i \in 1..df.n |-> str_get(Col(df, source)[i], k)])

\* df[columns] = df[columns].fillna(''), columns k.. of the list.
RECURSIVE FillSegments(_, _)
FillSegments(df, k) ==
    IF k > Len(segment_columns) THEN df
    ELSE FillSegments(
            SetCol(df, segment_columns[k], "object",
                   [i \in 1..df.n |-> fillna(Col(df, segment_columns[k])[i])]),
            k + 1)

\* The two nested loops over columns and properties:
\* df[f'{col}_{prop}'] = df[col].apply(...), one new column for each pair, in
\* the order of the loops.  No label of the pairs is a column already, and a
\* column the loops read is none they write, so the columns are appended
\* together.
FeatureColumns(df, columns, props) ==
    LET pairs == [c \in 1..(Len(columns) * Len(props)) |->
                     [col  |-> columns[((c - 1) \div Len(props)) + 1],
                      prop |-> props[((c - 1) % Len(props)) + 1]]]
    IN [df EXCEPT
          !.columns = @ \o [c \in DOMAIN pairs |-> pairs[c].col \o "_" \o pairs[c].prop],
          !.dtypes  = @ \o [c \in DOMAIN pairs |-> "object"],
          !.data    = @ \o [c \in DOMAIN pairs |->
                               [i \in 1..df.n |->
                                   feature(Col(df, pairs[c].col)[i], pairs[c].prop)]]]

\* 'ID-Target-Lang' and the try block: 'Target Type' and T1..T3.
TargetColumns(df) ==
    LET d1 == SetCol(df, "ID-Target-Lang", "object",
                     [i \in 1..df.n |->
                         PdAdd(PdAdd(Col(df, "Participant")[i], Col(df, "IPA Target")[i]),
                               Col(df, "Language")[i])])
    IN IF d1.dtypes[IndexOf(d1.columns, "IPA Target")] = "object"
       THEN SetSegment(SetSegment(SetSegment(
                SetCol(d1, "Target Type", "object",
                       [i \in 1..d1.n |-> target_type(Col(d1, "IPA Target")[i])]),
                "T1", "IPA Target", 0), "T2", "IPA Target", 1), "T3", "IPA Target", 2)
       \* except AttributeError
       ELSE SetScalar(SetScalar(SetScalar(SetScalar(d1,
                "Target Type", ""), "T1", ""), "T2", ""), "T3", "")

\* A1..A5, outside the try block.
ActualColumns(df) ==
    SetSegment(SetSegment(SetSegment(SetSegment(SetSegment(df,
        "A1", "IPA Actual", 0), "A2", "IPA Actual", 1), "A3", "IPA Actual", 2),
        "A4", "IPA Actual", 3), "A5", "IPA Actual", 4)

\* df['IPA Actual'].str raises AttributeError on a column that is not text:
\* a column of missing values only is float64.
StrAccessorFails(df) == df.dtypes[IndexOf(df.columns, "IPA Actual")] # "object"

Expanded(df) ==
    FeatureColumns(
        FeatureColumns(FillSegments(ActualColumns(TargetColumns(df)), 1),
                       segment_columns, properties),
        columns_more, properties_more)

\* os.path.join(directory, "Compiled", "merged_files", "full_annotated_dataset.csv")
annotated_filepath == Path("merged_files", full_annotated_dataset)

NoExpander == [outcome |-> "none", file_location |-> Path("", ""), df |-> EmptyFrame]

\* One call of phone_data_expander on a file location.
PhoneDataExpander(file_location) ==
    /\ tables[file_location] # Absent
    /\ pc' = "phone_data_expander"
    /\ UNCHANGED <<accuracyVars, matchVars, mergeVars, genVars>>
    /\ \E df \in {read_csv(tables[file_location])} :
          IF StrAccessorFails(TargetColumns(df))
          THEN /\ expander_call' = [outcome       |-> "AttributeError",
                                    file_location |-> file_location,
                                    df            |-> TargetColumns(df)]
               /\ UNCHANGED tables
          ELSE \E out \in {Expanded(df)} :
                  /\ expander_call' = [outcome       |-> "returned",
                                       file_location |-> file_location,
                                       df            |-> out]
                  /\ tables' = [tables EXCEPT ![annotated_filepath] = to_csv(out)]

(***************************************************************************)
(* phon_query_to_csv, the wrapper.                                         *)
(*                                                                         *)
(* A value a stage is given or returns is a file path or something else:   *)
(* nothing, a directory, the tuple gen_csv returns, a DataFrame.  The      *)
(* wrapper's calls are kept in the order they were made, each with what it *)
(* was given, how it ended and what it returned.                           *)
(***************************************************************************)
PathValue(path) == [kind |-> "path", path |-> path]

OtherValue(kind) == [kind |-> kind, path |-> Path("", "")]

NoWrapper == [outcome |-> "none", filepath |-> OtherValue("unbound"),
              result |-> OtherValue("unbound"), calls |-> <<>>]

\* The file merge_csv wrote, as pandas.read_csv sees it: the columns of the
\* header line, under them the fields of each data line by position.
ParseLines(lines) ==
    LET header == staged[lines[1].file].table.columns
    IN [columns |-> header,
        cells   |-> [j \in 1..Len(header) |->
                        [i \in 1..(Len(lines) - 1) |->
                            staged[lines[i + 1].file].table.cells[j][lines[i + 1].row]]],
        n       |-> Len(lines) - 1]

Called(stage, input, outcome, returned) ==
    [stage |-> stage, input |-> input, outcome |-> outcome, returned |-> returned]

\* An exception of a stage ends the wrapper.
After(outcome) == IF outcome = "returned" THEN "running" ELSE outcome

\* filepath = gen_csv(directory)
WrapperGenCsv(response) ==
    /\ wrapper.outcome = "none"
    /\ GenCsv(response)
    /\ wrapper' =
          [wrapper EXCEPT
             !.outcome = After(gen_call'.outcome),
             !.filepath = IF gen_call'.outcome = "returned" THEN OtherValue("tuple") ELSE @,
             !.calls = Append(@, Called("gen_csv", OtherValue("directory"),
                                        gen_call'.outcome,
                                        IF gen_call'.outcome = "returned"
                                        THEN OtherValue("tuple") ELSE OtherValue("nothing")))]

\* filepath = merge_csv()
WrapperMergeCsv ==
    /\ wrapper.outcome = "running"
    /\ pc = "gen_csv"
    /\ pc' = "merge_csv"
    /\ merge_csv(DefaultParticipants, DefaultLanguages, DefaultAnalyses, FALSE, FALSE, FALSE)
    /\ tables' = [tables EXCEPT ![Path("merged_files", join(merge_call'.save_path))] =
                                    ParseLines(merged_files'[merge_call'.save_path])]
    /\ UNCHANGED <<accuracyVars, matchVars, uniform_files, genVars, expanderVars>>
    /\ wrapper' =
          [wrapper EXCEPT
             !.outcome = After(merge_call'.outcome),
             !.filepath = PathValue(Path("merged_files", join(merge_call'.save_path))),
             !.calls = Append(@, Called("merge_csv", OtherValue("nothing"),
                                        merge_call'.outcome,
                                        PathValue(Path("merged_files",
                                                       join(merge_call'.save_path)))))]

\* filepath = calculate_accuracy(filepath)
WrapperCalculateAccuracy ==
    /\ wrapper.outcome = "running"
    /\ pc = "merge_csv"
    /\ CalculateAccuracy(wrapper.filepath.path)
    /\ wrapper' =
          [wrapper EXCEPT
             !.filepath = PathValue(accuracy_call'.output_filepath),
             !.calls = Append(@, Called("calculate_accuracy", wrapper.filepath, "returned",
                                        PathValue(accuracy_call'.output_filepath)))]

\* result = phone_data_expander(filepath); return result
WrapperPhoneDataExpander ==
    /\ wrapper.outcome = "running"
    /\ pc = "calculate_accuracy"
    /\ PhoneDataExpander(wrapper.filepath.path)
    /\ wrapper' =
          [wrapper EXCEPT
             !.outcome = expander_call'.outcome,
             !.result = IF expander_call'.outcome = "returned"
                        THEN OtherValue("DataFrame") ELSE @,
             !.calls = Append(@, Called("phone_data_expander", wrapper.filepath,
                                        expander_call'.outcome,
                                        IF expander_call'.outcome = "returned"
                                        THEN OtherValue("DataFrame")
                                        ELSE OtherValue("nothing")))]

(***************************************************************************)
(* Specifications, one per stage.                                          *)
(***************************************************************************)
NoKey == [target_cols |-> <<>>, actual_cols |-> <<>>]

\* The combined table merge_csv left for the Accuracy Deriver: the two
\* transcription columns, possibly after a column already called Accuracy.
CombinedTable(pre, n, target, actual) ==
    [columns |-> pre \o <<"IPA Target", "IPA Actual">>,
     cells   |-> [j \in 1..Len(pre) |-> [i \in 1..n |-> "old"]] \o <<target, actual>>,
     n       |-> n]

CombinedTables ==
    UNION {{CombinedTable(pre, n, target, actual) :
                pre \in {<<>>, <<"Accuracy">>},
                target \in [1..n -> CellText],
                actual \in [1..n -> CellText]} : n \in 0..MaxRows}

InitAccuracy ==
    /\ \E file \in CombinedTables, name \in {MergedName, output_filename} :
          tables = [p \in Paths |-> IF p.name = name THEN file ELSE Absent]
    /\ accuracy_call = NoCall
    /\ column_key = NoKey
    /\ table_to_modify = EmptyFrame
    /\ match_result = NoMatch
    /\ passes = 0
    /\ dirs = {"uniform_files"}
    /\ uniform_files = <<>>
    /\ merged_files = <<>>
    /\ merge_call = NoMerge
    /\ directory = NoDirectory
    /\ staged = <<>>
    /\ gen_call = NoGen
    /\ expander_call = NoExpander
    /\ wrapper = NoWrapper
    /\ pc = "start"

NextAccuracy == \E filepath \in Paths : CalculateAccuracy(filepath) /\ UNCHANGED wrapper

SpecAccuracy == InitAccuracy /\ [][NextAccuracy]_vars



\* Label sequences without repeats: read_csv never loads two columns under
\* one label.
SourceColumns == {c \in SeqsUpTo(Names, Cardinality(Names)) : Len(c) > 0 /\ ~HasDuplicates(c)}

\* The table_to_modify of a first pass: each column holds its own source
\* label in every row.
SourceTable(columns, n) ==
    [columns |-> columns,
     dtypes  |-> [j \in 1..Len(columns) |-> "object"],
     data    |-> [j \in 1..Len(columns) |-> [i \in 1..n |-> columns[j]]],
     n       |-> n]

\* Keys: rows three and four of the key file, of equal length; an actual
\* name may be empty.
ColumnKeys ==
    UNION {{[target_cols |-> t, actual_cols |-> a] :
                t \in [1..k -> Names], a \in [1..k -> Names \cup {""}]} : k \in 1..MaxKeyLen}

InitMatch ==
    /\ tables = [p \in Paths |-> Absent]
    /\ accuracy_call = NoCall
    /\ column_key \in ColumnKeys
    /\ \E columns \in SourceColumns, n \in 0..MaxRows :
          table_to_modify = SourceTable(columns, n)
    /\ match_result = NoMatch
    /\ passes = 0
    /\ dirs = {"uniform_files"}
    /\ uniform_files = <<>>
    /\ merged_files = <<>>
    /\ merge_call = NoMerge
    /\ directory = NoDirectory
    /\ staged = <<>>
    /\ gen_call = NoGen
    /\ expander_call = NoExpander
    /\ wrapper = NoWrapper
    /\ pc = "start"

NextMatch == (FirstPass /\ UNCHANGED wrapper) \/ (NextPass /\ UNCHANGED wrapper)

SpecMatch == InitMatch /\ [][NextMatch]_vars

\* The lists a caller passes: the defaults, or values to partition by.
ParticipantLists == {DefaultParticipants, <<"P1">>, <<"P1", "P2">>}

LanguageLists == {DefaultLanguages, <<"English">>, <<"Spanish", "English">>}

AnalysisLists == {DefaultAnalyses, <<"Consonants">>}

\* The staging directory as the Normalizer left it: any of the staged files,
\* each with its header line and up to MaxDataLines data lines.
InitMerge ==
    /\ tables = [p \in Paths |-> Absent]
    /\ accuracy_call = NoCall
    /\ column_key = NoKey
    /\ table_to_modify = EmptyFrame
    /\ match_result = NoMatch
    /\ passes = 0
    /\ dirs = {"uniform_files"}
    /\ \E present \in SUBSET StagedNames :
          \E rows \in [present -> 0..MaxDataLines] :
              uniform_files = [fname \in present |-> StagedLines(fname, rows[fname])]
    /\ merged_files = <<>>
    /\ merge_call = NoMerge
    /\ directory = NoDirectory
    /\ staged = <<>>
    /\ gen_call = NoGen
    /\ expander_call = NoExpander
    /\ wrapper = NoWrapper
    /\ pc = "start"

NextMerge ==
    \E participant_list \in ParticipantLists, language_list \in LanguageLists,
       analysis_list \in AnalysisLists,
       separate_participants \in BOOLEAN, separate_languages \in BOOLEAN,
       separate_analyses \in BOOLEAN :
        /\ MergeCsv(participant_list, language_list, analysis_list,
                    separate_participants, separate_languages, separate_analyses)
        /\ UNCHANGED wrapper

SpecMerge == InitMerge /\ [][NextMerge]_vars

\* Staged files whose probe field, the second "_" token of the input file's
\* name, may read like a participant.
Probes == {"probe", "P2"}

StagedNameWithProbe(participant, language, analysis, probe) ==
    <<participant, language, "Pre", analysis, probe, "Pre">>

StagedNamesWithProbe ==
    {StagedNameWithProbe(p, l, a, probe) :
        p \in Participants, l \in Languages, a \in Analyses, probe \in Probes}

MaxStaged == 2

\* What an earlier call of merge_csv with its default arguments left in
\* Compiled/merged_files.
PreviousOutput ==
    save_name("AllPart", "AllLang", "AllAnalyses") :> <<HeaderLine(<<"previous">>)>>

\* The staging directory with up to MaxStaged such files of one data line
\* each, before the first call of merge_csv or after an earlier one.
InitSelect ==
    /\ tables = [p \in Paths |-> Absent]
    /\ accuracy_call = NoCall
    /\ column_key = NoKey
    /\ table_to_modify = EmptyFrame
    /\ match_result = NoMatch
    /\ passes = 0
    /\ \E present \in {S \in SUBSET StagedNamesWithProbe : Cardinality(S) <= MaxStaged} :
          uniform_files = [fname \in present |-> StagedLines(fname, 1)]
    /\ \/ dirs = {"uniform_files"} /\ merged_files = <<>>
       \/ dirs = {"uniform_files", "merged_files"} /\ merged_files = PreviousOutput
    /\ merge_call = NoMerge
    /\ directory = NoDirectory
    /\ staged = <<>>
    /\ gen_call = NoGen
    /\ expander_call = NoExpander
    /\ wrapper = NoWrapper
    /\ pc = "start"

SpecSelect == InitSelect /\ [][NextMerge]_vars

MaxFiles == 2

\* The path of the root directory, which names the analysis or does not.
DirNames == {<<"Data", "Consonants">>, <<"Data">>}

\* os.listdir(dirName): up to MaxFiles of the file names, in any order.
DirListings == {l \in SeqsUpTo(FileNames, MaxFiles) : ~HasDuplicates(l)}

\* A Phon query output: the columns before the transcriptions, the two
\* transcriptions and the Result, with n rows.
QueryOutput(pre, old, n, target, actual) ==
    [columns |-> pre \o <<"IPA Target", "IPA Actual", "Result">>,
     cells   |-> [j \in 1..Len(pre) |-> [i \in 1..n |-> old]]
                    \o <<[i \in 1..n |-> target], [i \in 1..n |-> actual],
                         [i \in 1..n |-> ResultText]>>,
     n       |-> n]

QueryOutputs ==
    {QueryOutput(<<"Record #">>, "1", 0, "t", "t"),
     QueryOutput(<<>>, "", 1, "g", "t"),
     QueryOutput(<<>>, "", 1, "t", "NA")}

Directories ==
    UNION {{[dirName |-> dirName, listing |-> listing, files |-> files,
             subdirs |-> <<>>] :
               dirName \in DirNames,
               files \in [{cur_csv \in Range(listing) : Loaded(cur_csv)} -> QueryOutputs]} :
           listing \in DirListings}

\* What a previous run left in Compiled/uniform_files.
StaleName == <<"P303", "Spanish", "Pre", "Vowels", "Probe1", "Pre">>

StaleFiles ==
    StaleName :> [table  |-> QueryOutput(<<>>, "", 1, "t", "d"),
                  source |-> "P303_Probe1_Pre.csv",
                  run    |-> "previous"]

Responses == {"y", "Y", "n"}

\* Before gen_csv: the root directory, with no Compiled directory or with
\* the one a previous run left.
InitGen ==
    /\ tables = [p \in Paths |-> Absent]
    /\ accuracy_call = NoCall
    /\ column_key = NoKey
    /\ table_to_modify = EmptyFrame
    /\ match_result = NoMatch
    /\ passes = 0
    /\ merged_files = <<>>
    /\ merge_call = NoMerge
    /\ directory \in Directories
    /\ \/ dirs = {} /\ staged = <<>> /\ uniform_files = <<>>
       \/ /\ dirs = {"uniform_files"}
          /\ staged = StaleFiles
          /\ uniform_files = (StaleName :> StagedLines(StaleName, 1))
    /\ gen_call = NoGen
    /\ expander_call = NoExpander
    /\ wrapper = NoWrapper
    /\ pc = "start"

NextGen == \E response \in Responses : GenCsv(response) /\ UNCHANGED wrapper

SpecGen == InitGen /\ [][NextGen]_vars

(***************************************************************************)
(* Two calls of gen_csv on the same root, one after the other.             *)
(***************************************************************************)
NextRerun ==
    \/ \E response \in Responses : GenCsv(response) /\ UNCHANGED wrapper
    \/ \E response \in Responses : GenCsvAgain(response) /\ UNCHANGED wrapper

SpecRerun == InitGen /\ [][NextRerun]_vars

(***************************************************************************)
(* gen_csv on a root directory with subdirectories.                        *)
(***************************************************************************)
MaxSubdirs == 2

WalkNames ==
    {"P101_Probe1_Pre.csv", "P202_Probe1_PEEP.csv", "P101_Probe1_Pre.xlsx",
     "P101_Probe1_Pre.xls", "desktop.ini", "P101_Probe1_Summary.csv"}

\* os.listdir of a directory of the walk: empty or one file.
WalkListings == {<<>>} \cup {<<fname>> : fname \in WalkNames}

\* The last component of the k-th subdirectory's path.
SubdirName(k) == IF k = 1 THEN "Vowels" ELSE IF k = 2 THEN "Session2" ELSE "Session3"

WalkDir(dirName, listing) ==
    [dirName |-> dirName,
     listing |-> listing,
     files   |-> [cur_csv \in {f \in Range(listing) : Loaded(f)} |->
                     QueryOutput(<<>>, "", 1, "t", "t")]]

\* The root and up to MaxSubdirs subdirectories below it.
WalkTrees ==
    {[dirName |-> dirName, listing |-> listing,
      files   |-> WalkDir(dirName, listing).files,
      subdirs |-> [k \in DOMAIN sub |-> WalkDir(Append(dirName, SubdirName(k)), sub[k])]] :
        dirName \in DirNames, listing \in WalkListings,
        sub \in SeqsUpTo(WalkListings, MaxSubdirs)}

InitWalk ==
    /\ tables = [p \in Paths |-> Absent]
    /\ accuracy_call = NoCall
    /\ column_key = NoKey
    /\ table_to_modify = EmptyFrame
    /\ match_result = NoMatch
    /\ passes = 0
    /\ merged_files = <<>>
    /\ merge_call = NoMerge
    /\ directory \in WalkTrees
    /\ \/ dirs = {} /\ staged = <<>> /\ uniform_files = <<>>
       \/ /\ dirs = {"uniform_files"}
          /\ staged = StaleFiles
          /\ uniform_files = (StaleName :> StagedLines(StaleName, 1))
    /\ gen_call = NoGen
    /\ expander_call = NoExpander
    /\ wrapper = NoWrapper
    /\ pc = "start"

SpecWalk == InitWalk /\ [][NextGen]_vars

(***************************************************************************)
(* The whole pipeline, as __main__ runs it: phon_query_to_csv(directory)   *)
(* on a root directory whose query outputs all have the same columns.      *)
(***************************************************************************)
PipelineOutputs ==
    {file \in QueryOutputs : file.columns = <<"IPA Target", "IPA Actual", "Result">>}

InitPipeline ==
    /\ InitGen
    /\ \A cur_csv \in DOMAIN directory.files : directory.files[cur_csv] \in PipelineOutputs

NextPipeline ==
    \/ \E response \in Responses : WrapperGenCsv(response)
    \/ WrapperMergeCsv
    \/ WrapperCalculateAccuracy
    \/ WrapperPhoneDataExpander

SpecPipeline == InitPipeline /\ [][NextPipeline]_vars

(***************************************************************************)
(* The whole pipeline on a root directory with subdirectories.             *)
(***************************************************************************)
SpecTree == InitWalk /\ [][NextPipeline]_vars

(***************************************************************************)
(* Claims about calculate_accuracy (all under SpecAccuracy).  They read    *)
(* the last call: the file it was given (cell texts) and the DataFrame it  *)
(* held when it wrote its output.                                          *)
(***************************************************************************)
AccuracyRan == pc = "calculate_accuracy"

AccRows == 1..accuracy_call.df.n

FileCol(file, label) == file.cells[IndexOf(file.columns, label)]

TargetText(i) == FileCol(accuracy_call.input, "IPA Target")[i]

ActualText(i) == FileCol(accuracy_call.input, "IPA Actual")[i]

Accuracy(i) == Col(accuracy_call.df, "Accuracy")[i]

Deletion(i) == Col(accuracy_call.df, "Deletion")[i]

Substitution(i) == Col(accuracy_call.df, "Substitution")[i]

\* A text made of spaces only (of the cell texts the model draws from).
WhitespaceOnly(text) == text \in {" ", "  "}

\* C1: for every row, Accuracy = 1 implies Deletion = 0 and Substitution = 0,
\* and Deletion = 1 implies Substitution = 0.
C1_MutuallyExclusive ==
    AccuracyRan =>
        \A i \in AccRows :
            /\ Accuracy(i) = 1 => (Deletion(i) = 0 /\ Substitution(i) = 0)
            /\ Deletion(i) = 1 => Substitution(i) = 0

\* C2 as stated: for every row, Accuracy = 1 if and only if the Target text
\* equals the Actual text exactly, and Accuracy = 0 otherwise.
C2_AccuracyIffEqual ==
    AccuracyRan =>
        \A i \in AccRows :
            /\ Accuracy(i) \in {0, 1}
            /\ Accuracy(i) = 1 <=> TargetText(i) = ActualText(i)

\* C2 amended: for every row, Accuracy = 1 if and only if the Target text
\* equals the Actual text exactly and is not a text loaded as a missing value
\* (an empty cell or a null marker); Accuracy = 0 otherwise.
C2_AccuracyIffEqualAndPresent ==
    AccuracyRan =>
        \A i \in AccRows :
            /\ Accuracy(i) \in {0, 1}
            /\ Accuracy(i) = 1 <=>
                   (TargetText(i) = ActualText(i) /\ TargetText(i) \notin NaValues)

\* C2 witness: a row with Target = Actual = "t" got Accuracy 1, Deletion 0,
\* Substitution 0.
C2_Witness ==
    /\ AccuracyRan
    /\ \E i \in AccRows :
          /\ TargetText(i) = "t" /\ ActualText(i) = "t"
          /\ Accuracy(i) = 1 /\ Deletion(i) = 0 /\ Substitution(i) = 0

\* C3: for every row, Deletion = 1 if and only if the Actual text is empty,
\* whitespace-only (of any length), a null marker or the 'no segment' symbol,
\* whatever the Target.
C3_DeletionIffActualMissing ==
    AccuracyRan =>
        \A i \in AccRows :
            Deletion(i) = 1 <=>
                \/ ActualText(i) = ""
                \/ WhitespaceOnly(ActualText(i))
                \/ ActualText(i) \in NaValues
                \/ ActualText(i) = NoSegment

\* C4: for every row, Substitution = 1 if and only if the Target text differs
\* from the Actual text and the row is not a Deletion row (Deletion = 0).
C4_SubstitutionIffDifferentAndNotDeleted ==
    AccuracyRan =>
        \A i \in AccRows :
            /\ Substitution(i) \in {0, 1}
            /\ Substitution(i) = 1 <=>
                   (TargetText(i) # ActualText(i) /\ Deletion(i) = 0)

\* C4 witness: a row with Target "t" and Actual "d" got Accuracy 0,
\* Deletion 0, Substitution 1.
C4_Witness ==
    /\ AccuracyRan
    /\ \E i \in AccRows :
          /\ TargetText(i) = "t" /\ ActualText(i) = "d"
          /\ Accuracy(i) = 0 /\ Deletion(i) = 0 /\ Substitution(i) = 1

\* C5: calculate_accuracy writes to a file other than its input, and the
\* input file holds after the call what it held before.
C5_InputNeverModified ==
    AccuracyRan =>
        /\ accuracy_call.output_filepath # accuracy_call.filepath
        /\ tables[accuracy_call.filepath] = accuracy_call.input


(***************************************************************************)
(* Claims about column_match (all under SpecMatch).                        *)
(***************************************************************************)
MatchRan == pc = "column_match"

KeyTargetCols == column_key.target_cols

KeyActualCols == column_key.actual_cols

KeyPairs == 1..Min(Len(KeyTargetCols), Len(KeyActualCols))

\* A key that is a mapping: no canonical name twice, no non-empty actual
\* name twice.
KeyIsMapping ==
    /\ ~HasDuplicates(KeyTargetCols)
    /\ \A k, m \in KeyPairs : (k # m /\ KeyActualCols[k] # "") => KeyActualCols[k] # KeyActualCols[m]

\* Every column of the table is one the key lists as an actual name.
TableMadeOfActualCols == \A c \in Range(table_to_modify.columns) : c \in Range(KeyActualCols)

\* C6: after a pass with a key that is a mapping over a source table made of
\* the key's actual columns, for every pair whose actual name is non-empty,
\* differs from the canonical name and labels a source column, the call
\* returns a table in which the canonical name labels that source column's
\* data, and renaming made no label twice.
C6_RenameIsMapping ==
    (MatchRan /\ passes = 1 /\ KeyIsMapping /\ TableMadeOfActualCols) =>
        \A k \in KeyPairs :
            (/\ KeyActualCols[k] # ""
             /\ KeyActualCols[k] # KeyTargetCols[k]
             /\ HasCol(table_to_modify, KeyActualCols[k])) =>
                /\ match_result.outcome = "returned"
                /\ ~HasDuplicates(match_result.renamed.columns)
                /\ HasCol(match_result.new_table, KeyTargetCols[k])
                /\ Col(match_result.new_table, KeyTargetCols[k])
                       = Col(table_to_modify, KeyActualCols[k])

\* C7: when column_match returns, the output's column list is the canonical
\* list in the key's order (so no other column is left), a canonical column
\* the renamed table has carries that column's data unchanged, a canonical
\* column it lacks is entirely empty, the rows are as many as before, and the
\* written file is that table.
C7_ReindexedToCanonical ==
    (MatchRan /\ match_result.outcome = "returned") =>
        LET out == match_result.new_table
            ren == match_result.renamed
        IN /\ out.columns = KeyTargetCols
           /\ out.n = table_to_modify.n
           /\ ren.data = table_to_modify.data
           /\ Len(out.data) = Len(KeyTargetCols)
           /\ \A j \in 1..Len(KeyTargetCols) :
                 /\ Len(out.data[j]) = table_to_modify.n
                 /\ IF HasCol(ren, KeyTargetCols[j])
                    THEN \E k \in 1..Len(ren.columns) :
                            ren.columns[k] = KeyTargetCols[j] /\ out.data[j] = ren.data[k]
                    ELSE out.data[j] = EmptyColumn(table_to_modify.n)
           /\ tables[match_output_filepath] = to_csv(out)

\* C7 witness: a returned first pass over a table with rows in which one
\* column was dropped, one canonical column was added empty and one kept its
\* data.
C7_Witness ==
    /\ MatchRan /\ passes = 1 /\ match_result.outcome = "returned"
    /\ table_to_modify.n > 0
    /\ \E c \in Range(match_result.renamed.columns) : c \notin Range(KeyTargetCols)
    /\ \E j \in 1..Len(KeyTargetCols) :
          /\ ~HasCol(match_result.renamed, KeyTargetCols[j])
          /\ match_result.new_table.data[j] = EmptyColumn(table_to_modify.n)
    /\ \E j \in 1..Len(KeyTargetCols) :
          /\ HasCol(match_result.renamed, KeyTargetCols[j])
          /\ match_result.new_table.data[j] # EmptyColumn(table_to_modify.n)

\* C8: a second pass with the same key over the first pass's output returns,
\* and returns that table unchanged (labels, order, cell values).
C8_Idempotent ==
    (MatchRan /\ passes >= 2) =>
        /\ match_result.outcome = "returned"
        /\ match_result.new_table = table_to_modify

MergeReturned == pc = "merge_csv" /\ merge_call.outcome = "returned"

Processed == 1..Len(merge_call.combos)

\* The staged files glob selected for the c-th combination, in its order.
Selected(c) == merge_call.globbed[c]

\* The lines of the file written for the c-th combination.
MergedOutput(c) ==
    merged_files[save_name(merge_call.combos[c].participant,
                           merge_call.combos[c].language,
                           merge_call.combos[c].analysis)]

Count(lines, line) == Cardinality({i \in 1..Len(lines) : lines[i] = line})

RECURSIVE SumOfLineCounts(_)
SumOfLineCounts(fnames) ==
    IF fnames = <<>> THEN 0
    ELSE Len(uniform_files[Head(fnames)]) + SumOfLineCounts(Tail(fnames))

\* The output holds the first selected file's header line once, as its first
\* line, no other header line, and every data line of every selected file
\* exactly once.
HeaderOnceThenAllData(c) ==
    /\ Len(Selected(c)) >= 1 =>
          /\ Len(MergedOutput(c)) >= 1
          /\ MergedOutput(c)[1] = uniform_files[Selected(c)[1]][1]
          /\ Cardinality({i \in 1..Len(MergedOutput(c)) : MergedOutput(c)[i].row = 0}) = 1
    /\ \A k \in 1..Len(Selected(c)) :
          \A i \in 2..Len(uniform_files[Selected(c)[k]]) :
              Count(MergedOutput(c), uniform_files[Selected(c)[k]][i]) = 1

\* C10 as stated: for every combination processed, the output is the first
\* selected file's header once followed by all data lines of all selected
\* files, and its line count is the sum of the selected files' line counts
\* minus (number of selected files - 1).
C10_HeaderOnceAndLineCount ==
    MergeReturned =>
        \A c \in Processed :
            /\ HeaderOnceThenAllData(c)
            /\ Len(MergedOutput(c)) = SumOfLineCounts(Selected(c)) - (Len(Selected(c)) - 1)

\* C10 amended: the same for every combination that selects at least one
\* staged file; a combination that selects none gets an empty output file.
C10_HeaderOnceAndLineCountIfSelected ==
    MergeReturned =>
        \A c \in Processed :
            IF Len(Selected(c)) = 0
            THEN MergedOutput(c) = <<>>
            ELSE /\ HeaderOnceThenAllData(c)
                 /\ Len(MergedOutput(c))
                        = SumOfLineCounts(Selected(c)) - (Len(Selected(c)) - 1)

\* C10 witness: a call partitioning by participant wrote an output from two
\* selected files, the second of which has a data line.
C10_Witness ==
    /\ MergeReturned
    /\ merge_call.separate[1]
    /\ \E c \in Processed :
          /\ Len(Selected(c)) >= 2
          /\ Len(uniform_files[Selected(c)[2]]) >= 2
          /\ Len(MergedOutput(c)) = SumOfLineCounts(Selected(c)) - (Len(Selected(c)) - 1)

(***************************************************************************)
(* Claims about which staged files merge_csv selects (under SpecSelect)    *)
(* and about its argument check (under SpecMerge).                         *)
(***************************************************************************)
\* The name holds the value: "value in fname".
Contains(fname, value) == value \in Range(fname)

\* The staged files whose name holds the value of every dimension of the
\* c-th combination whose separate_* flag is enabled, wherever it stands.
ContainingEveryEnabledValue(c) ==
    {fname \in DOMAIN uniform_files :
        /\ merge_call.separate[1] => Contains(fname, merge_call.combos[c].participant)
        /\ merge_call.separate[2] => Contains(fname, merge_call.combos[c].language)
        /\ merge_call.separate[3] => Contains(fname, merge_call.combos[c].analysis)}

\* C11 as stated: for every combination processed, the staged files
\* concatenated are exactly those whose name contains the value of every
\* dimension whose separate flag is enabled, in whatever order the values
\* occur in the name; a disabled dimension does not filter.
C11_SelectedContainEveryEnabledValue ==
    MergeReturned =>
        \A c \in Processed : Range(Selected(c)) = ContainingEveryEnabledValue(c)

\* The arguments of the last call: a list differs from its default while
\* its separate_* flag is not enabled.
NonDefaultListWithoutFlag ==
    \/ (merge_call.participant_list # <<"AllPart">> /\ ~merge_call.separate[1])
    \/ (merge_call.language_list # <<"AllLang">> /\ ~merge_call.separate[2])
    \/ (merge_call.analysis_list # <<"AllAnalyses">> /\ ~merge_call.separate[3])

\* C12: a call of merge_csv with a participant, language or analysis list
\* different from its default while the corresponding separate_* flag is not
\* enabled fails with a configuration error before any I/O: no directory is
\* created and no file is opened, written or truncated.
C12_ConfigurationErrorBeforeAnyIO ==
    [][(merge_call'.outcome # "none" /\ NonDefaultListWithoutFlag')
          => /\ merge_call'.outcome = "AssertionError"
             /\ dirs' = dirs
             /\ merged_files' = merged_files
             /\ uniform_files' = uniform_files
             /\ tables' = tables]_vars

\* C12 witness: a call with a custom language list and separate_languages
\* off failed, with an earlier output still in Compiled/merged_files.
C12_Witness ==
    /\ pc = "merge_csv"
    /\ merge_call.outcome = "AssertionError"
    /\ merge_call.participant_list = <<"AllPart">>
    /\ merge_call.language_list # <<"AllLang">>
    /\ ~merge_call.separate[2]
    /\ "merged_files" \in dirs
    /\ merged_files = PreviousOutput

(***************************************************************************)
(* Claims about gen_csv (under SpecGen).  They read the last call and the  *)
(* staging directory it left.                                              *)
(***************************************************************************)
GenRan == pc = "gen_csv"

\* The staged files the last call wrote.
StagedNow == {name \in DOMAIN staged : staged[name].run = "current"}

\* The input file a staged file was made from.
InputOf(name) == directory.files[staged[name].source]

IsPrefix(s, t) == Len(s) <= Len(t) /\ \A i \in 1..Len(s) : s[i] = t[i]

\* C13: gen_csv checks for Compiled under the root before any work; if it
\* exists and the user does not confirm, the run ends there with no input
\* file read and no file written; only on the confirmation is the stale
\* directory deleted and the run goes on; and files of a previous run are
\* never left in Compiled together with files of the current run.
C13_NoRunOverStaleCompiled ==
    [][pc' = "gen_csv" =>
          /\ (dirs # {} /\ gen_call'.response \notin {"y", "Y"})
                => /\ gen_call'.outcome = "SystemExit"
                   /\ gen_call'.read = <<>>
                   /\ gen_call'.written = <<>>
                   /\ UNCHANGED <<dirs, staged, uniform_files, merged_files, tables>>
          /\ (dirs # {} /\ gen_call'.response \in {"y", "Y"})
                => /\ gen_call'.outcome # "SystemExit"
                   /\ \A name \in DOMAIN staged' : staged'[name].run = "current"
          /\ ~\E old, new \in DOMAIN staged' :
                  staged'[old].run = "previous" /\ staged'[new].run = "current"]_vars

\* C13 witness: Compiled existed, the user confirmed with "Y", and the run
\* staged a file.
C13_Witness ==
    /\ GenRan
    /\ gen_call.prompted
    /\ gen_call.response = "Y"
    /\ gen_call.outcome = "returned"
    /\ StagedNow # {}

\* C14 as stated: every staged table holds every column of its input table
\* under its original name and in the original order, the new columns after
\* them.
C14_InputColumnsKept ==
    GenRan =>
        \A name \in StagedNow : IsPrefix(InputOf(name).columns, staged[name].table.columns)

\* C15 as stated: re-reading a staged file gives, for every column of the
\* input that it still holds, the cell values read from the input.
C15_RoundTrip ==
    GenRan =>
        \A name \in StagedNow :
            \A label \in Range(InputOf(name).columns) :
                HasCol(read_csv(staged[name].table), label)
                    => Col(read_csv(staged[name].table), label)
                           = Col(read_csv(InputOf(name)), label)

\* No token of the name matches participant_regex.
NoParticipant(cur_csv) == \A token \in Range(split(cur_csv)) : token \notin {"P101", "P202"}

\* No token of the name matches phase_regex.
NoPhase(cur_csv) == \A token \in Range(split(cur_csv)) : token \notin {"Pre", "Post"}

HasAnalysis == "Consonants" \in Range(directory.dirName)

\* The files of the listing gen_csv loads, in listing order.
LoadedFiles ==
    SelectSeq(directory.listing,
              LAMBDA f : /\ f \notin {"desktop.ini", "Report Template.txt", "Report.html"}
                         /\ "Summary" \notin Range(split(f))
                         /\ endswith(f, ".csv"))

\* C16 as stated: when a loaded file's name yields no participant, gen_csv
\* raises an error that identifies that file name and aborts: nothing is
\* staged for the file and no later file is processed.
C16_ParticipantErrorNamesFile ==
    (GenRan /\ gen_call.outcome # "SystemExit" /\ HasAnalysis) =>
        \A k \in 1..Len(LoadedFiles) :
            (NoParticipant(LoadedFiles[k])
                /\ \A j \in 1..(k - 1) : ~NoParticipant(LoadedFiles[j]))
            => /\ gen_call.outcome = "IndexError"
               /\ LoadedFiles[k] \in Range(gen_call.error.message)
               /\ \A name \in StagedNow : staged[name].source # LoadedFiles[k]
               /\ gen_call.read = SubSeq(LoadedFiles, 1, k)

\* The same without the file name in the error.
C16_ParticipantErrorAborts ==
    (GenRan /\ gen_call.outcome # "SystemExit" /\ HasAnalysis) =>
        \A k \in 1..Len(LoadedFiles) :
            (NoParticipant(LoadedFiles[k])
                /\ \A j \in 1..(k - 1) : ~NoParticipant(LoadedFiles[j]))
            => /\ gen_call.outcome = "IndexError"
               /\ \A name \in StagedNow : staged[name].source # LoadedFiles[k]
               /\ gen_call.read = SubSeq(LoadedFiles, 1, k)

\* The cells of a column of a csv file.
CellsOf(file, label) == file.cells[IndexOf(file.columns, label)]

\* C17: when a loaded file's name has no phase in it, gen_csv does not fail
\* on it: the file gets the Phase "unknown", its staged table is written,
\* and the files after it are processed.
C17_PhaseDefaultsToUnknown ==
    (GenRan /\ gen_call.outcome # "SystemExit" /\ HasAnalysis) =>
        \A k \in 1..Len(LoadedFiles) :
            (NoPhase(LoadedFiles[k]) /\ \A j \in 1..k : ~NoParticipant(LoadedFiles[j]))
            => /\ gen_call.file # LoadedFiles[k]
               /\ \E w \in 1..Len(gen_call.written) :
                     /\ gen_call.written[w].source = LoadedFiles[k]
                     /\ gen_call.written[w].name[3] = "unknown"
                     /\ gen_call.written[w].name \in StagedNow
                     /\ staged[gen_call.written[w].name].source = LoadedFiles[k]
                            => \A i \in 1..staged[gen_call.written[w].name].table.n :
                                  CellsOf(staged[gen_call.written[w].name].table, "Phase")[i]
                                      = "unknown"
               /\ \A j \in (k + 1)..Len(LoadedFiles) :
                     (\A h \in (k + 1)..(j - 1) : ~NoParticipant(LoadedFiles[h]))
                         => LoadedFiles[j] \in Range(gen_call.read)

\* C17 witness: a file with no phase in its name was staged with the Phase
\* "unknown" in a row, and the file after it was staged as well.
C17_Witness ==
    /\ GenRan
    /\ gen_call.outcome = "returned"
    /\ Len(gen_call.written) = 2
    /\ gen_call.written[1].source = "P202_Probe1_PEEP.csv"
    /\ staged[gen_call.written[1].name].table.n = 1
    /\ CellsOf(staged[gen_call.written[1].name].table, "Phase")[1] = "unknown"
    /\ gen_call.written[2].name \in StagedNow

\* C19 as stated: after a run that processed file_count files without
\* error, Compiled/uniform_files holds file_count files.
C19_OneStagedFilePerInput ==
    (GenRan /\ gen_call.outcome = "returned")
        => Cardinality(StagedNow) = gen_call.file_count

\* The inclusion markers (substring_list of the earlier version).
substring_list == {"Accurate", "Deleted", "Deletions", "Substitutions"}

\* C20 as stated: a visited file is loaded if and only if its name ends
\* with .csv, is not in the blacklist, does not contain "Summary" and
\* contains an inclusion marker; any other file is skipped, leaving
\* file_count and the staging directory alone (read on the runs that
\* return).
C20_LoadedIffCandidate ==
    (GenRan /\ gen_call.outcome = "returned") =>
        /\ \A f \in Range(gen_call.read) \cup Range(gen_call.skipped) :
              (f \in Range(gen_call.read))
                  <=> /\ endswith(f, ".csv")
                      /\ f \notin {"desktop.ini", "Report Template.txt", "Report.html"}
                      /\ "Summary" \notin Range(split(f))
                      /\ \E marker \in substring_list : marker \in Range(split(f))
        /\ gen_call.file_count = Len(gen_call.read)
        /\ \A name \in StagedNow : staged[name].source \in Range(gen_call.read)

\* The same without the inclusion markers.
C20_LoadedIffCsvNotSkipped ==
    (GenRan /\ gen_call.outcome = "returned") =>
        /\ \A f \in Range(gen_call.read) \cup Range(gen_call.skipped) :
              (f \in Range(gen_call.read))
                  <=> /\ endswith(f, ".csv")
                      /\ f \notin {"desktop.ini", "Report Template.txt", "Report.html"}
                      /\ "Summary" \notin Range(split(f))
        /\ gen_call.file_count = Len(gen_call.read)
        /\ \A name \in StagedNow : staged[name].source \in Range(gen_call.read)

(***************************************************************************)
(* Claims about the wrapper phon_query_to_csv (under SpecPipeline).        *)
(***************************************************************************)
WrapperReturned == wrapper.outcome = "returned"

StagesCalled == [i \in 1..Len(wrapper.calls) |-> wrapper.calls[i].stage]

\* C18: when the wrapper has returned, it has run gen_csv, merge_csv,
\* calculate_accuracy and column_match, in this order and each once, and each
\* stage after the first was given the file path the stage before it returned.
C18_FourStagesEachFedThePreviousPath ==
    WrapperReturned =>
        /\ StagesCalled = <<"gen_csv", "merge_csv", "calculate_accuracy", "column_match">>
        /\ \A i \in 2..Len(wrapper.calls) :
              /\ wrapper.calls[i].input.kind = "path"
              /\ wrapper.calls[i].input = wrapper.calls[i - 1].returned

\* What holds of the order: the calls the wrapper has made are a prefix of
\* gen_csv, merge_csv, calculate_accuracy, phone_data_expander, every call but
\* the last has returned, and column_match was never called.
C18_StagesInOrderOnceEach ==
    /\ IsPrefix(StagesCalled,
                <<"gen_csv", "merge_csv", "calculate_accuracy", "phone_data_expander">>)
    /\ \A i \in 1..(Len(wrapper.calls) - 1) : wrapper.calls[i].outcome = "returned"
    /\ match_result = NoMatch

\* What holds of the paths: calculate_accuracy and phone_data_expander are
\* given the path the call before them returned; merge_csv is given nothing.
C18_LaterStagesFedThePreviousPath ==
    \A i \in 1..Len(wrapper.calls) :
        /\ wrapper.calls[i].stage \in {"calculate_accuracy", "phone_data_expander"} =>
              /\ wrapper.calls[i].input.kind = "path"
              /\ wrapper.calls[i].input = wrapper.calls[i - 1].returned
        /\ wrapper.calls[i].stage = "merge_csv" => wrapper.calls[i].input.kind = "nothing"

(***************************************************************************)
(* Claims about the two diff lists of column_match (under SpecMatch).      *)
(* table_to_modify is the table the last call was given, as it was given.  *)
(***************************************************************************)
Occurs(col, list) == \E k \in 1..Len(list) : list[k] = col

\* C21: a call of column_match that returns gives, with the realigned table,
\* the columns of the table it was given (before any renaming) that do not
\* occur in the key's actual names, and the actual names that do not occur
\* among those columns.
C21_DiffListsOfSourceTable ==
    match_result.outcome = "returned" =>
        /\ match_result.actual_cols_omitted_renamed =
              SelectSeq(table_to_modify.columns,
                        LAMBDA col : ~Occurs(col, column_key.actual_cols))
        /\ match_result.actual_cols_added =
              SelectSeq(column_key.actual_cols,
                        LAMBDA col : ~Occurs(col, table_to_modify.columns))
        /\ match_result.new_table.columns = column_key.target_cols

\* A returned call whose renaming changed the labels and whose two lists are
\* both non-empty and differ from what the renamed labels would give.
C21_Witness ==
    /\ match_result.outcome = "returned"
    /\ match_result.renamed.columns # table_to_modify.columns
    /\ match_result.actual_cols_omitted_renamed # <<>>
    /\ match_result.actual_cols_added # <<>>
    /\ match_result.actual_cols_omitted_renamed #
          SelectSeq(match_result.renamed.columns,
                    LAMBDA col : ~Occurs(col, column_key.actual_cols))

(***************************************************************************)
(* Claims about the walk of gen_csv over several directories (under        *)
(* SpecWalk).                                                              *)
(***************************************************************************)
\* The directories of the tree, in the order of the walk.
TreeDirs == <<directory>> \o directory.subdirs

NoCsvIn(dir) == \A i \in 1..Len(dir.listing) : ~endswith(dir.listing[i], ".csv")

ExcelIn(dir) ==
    \E i \in 1..Len(dir.listing) :
        endswith(dir.listing[i], ".xls") \/ endswith(dir.listing[i], ".xlsx")

\* No directory of the tree holds a file gen_csv loads.
NoCandidate == \A k \in 1..Len(TreeDirs) : \A f \in Range(TreeDirs[k].listing) : ~Loaded(f)

\* The call walked (it did not stop at the Compiled prompt) and no loaded
\* file failed.
WalkedWithoutFileError ==
    GenRan /\ gen_call.outcome # "SystemExit" /\ gen_call.error = NoError

\* C22: a directory without .csv files or with spreadsheet files is reported
\* and nothing more: the walk visits every directory, and the call returns,
\* with empty sets and file_count 0 when no directory holds a candidate file.
C22_ReportsNeverEndTheRun ==
    WalkedWithoutFileError =>
        /\ gen_call.visited = [k \in 1..Len(TreeDirs) |-> TreeDirs[k].dirName]
        /\ gen_call.outcome = "returned"
        /\ NoCandidate =>
              /\ gen_call.result.file_count = 0
              /\ gen_call.result.participants = {}
              /\ gen_call.result.probe_type = {}

\* The part that holds: every directory is visited, each directory without
\* .csv files or with spreadsheet files is reported, and the call returns
\* whenever it loaded a file.
C22_ReportsAreInformational ==
    WalkedWithoutFileError =>
        /\ gen_call.visited = [k \in 1..Len(TreeDirs) |-> TreeDirs[k].dirName]
        /\ \A k \in 1..Len(TreeDirs) :
              /\ NoCsvIn(TreeDirs[k]) <=>
                    [kind |-> "No .csv files", dirName |-> TreeDirs[k].dirName]
                        \in Range(gen_call.warnings)
              /\ ExcelIn(TreeDirs[k]) <=>
                    [kind |-> "Excel files", dirName |-> TreeDirs[k].dirName]
                        \in Range(gen_call.warnings)
        /\ gen_call.file_count > 0 => gen_call.outcome = "returned"
        /\ gen_call.file_count = 0 => gen_call.outcome = "UnboundLocalError"

\* A returned call that reported a directory with a spreadsheet and none
\* with .csv files, and loaded a file of a directory visited after it.
C22_ReportedAndWentOn ==
    /\ GenRan
    /\ gen_call.outcome = "returned"
    /\ Len(gen_call.warnings) >= 2
    /\ gen_call.warnings[1].dirName = directory.dirName
    /\ \E k \in 1..Len(gen_call.read_from) : gen_call.read_from[k] # directory.dirName

(***************************************************************************)
(* Claims about a call of gen_csv after one that was aborted (under        *)
(* SpecRerun).                                                             *)
(***************************************************************************)
\* The last call was ended by an exception of a loaded file.
Aborted == pc = "gen_csv" /\ gen_call.error # NoError

\* C23: a call ended by an exception of a loaded file leaves Compiled and
\* the files it had written; the next call on the same root is asked about
\* Compiled before it reads or writes a file: it ends there, everything left
\* as it was, or, with the answer y, it walks after the old files are gone.
C23_NextRunDeletesOrStops ==
    [][(Aborted /\ pc' = "gen_csv again") =>
          /\ "uniform_files" \in dirs
          /\ \A w \in 1..Len(gen_call.written) : gen_call.written[w].name \in DOMAIN staged
          /\ gen_call'.prompted
          /\ gen_call'.outcome = "SystemExit" =>
                /\ staged' = Previous(staged)
                /\ uniform_files' = uniform_files
                /\ gen_call'.read = <<>>
                /\ gen_call'.written = <<>>
          /\ gen_call'.outcome # "SystemExit" =>
                /\ lower(gen_call'.response) = "y"
                /\ \A fname \in DOMAIN staged' : staged'[fname].run = "current"
                /\ DOMAIN uniform_files' = DOMAIN staged']_vars

\* After a call that wrote one file and failed on the next, a call answered
\* y has run and ended the same way.
C23_Witness ==
    /\ pc = "gen_csv again"
    /\ gen_call.prompted
    /\ gen_call.response = "y"
    /\ gen_call.outcome = "IndexError"
    /\ Len(gen_call.written) = 1
    /\ DOMAIN staged = {gen_call.written[1].name}

\* After a call that wrote one file and failed on the next, a call answered
\* n has ended at the question and the file is still there.
C23_WitnessStopped ==
    /\ pc = "gen_csv again"
    /\ gen_call.outcome = "SystemExit"
    /\ \E fname \in DOMAIN staged : staged[fname].run = "previous" /\ fname # StaleName

(***************************************************************************)
(* Claims about what gen_csv and merge_csv take as input (under SpecTree). *)
(***************************************************************************)
UnderCompiled(dirName) == "Compiled" \in Range(dirName)

\* The lines merge_csv wrote into the files of its last call.
MergedLines ==
    UNION {Range(merged_files[fname]) : fname \in DOMAIN merged_files}

\* C24: gen_csv visits no directory under Compiled and loads no file from
\* one, although it makes Compiled/uniform_files under the root while it
\* walks; every file merge_csv takes is a file of Compiled/uniform_files
\* and every line it writes is a line of such a file.
C24_NoOutputTakenAsInput ==
    /\ \A k \in 1..Len(gen_call.visited) : ~UnderCompiled(gen_call.visited[k])
    /\ \A k \in 1..Len(gen_call.read_from) : ~UnderCompiled(gen_call.read_from[k])
    /\ \A name \in DOMAIN staged :
          staged[name].run = "current" => staged[name].source \notin StagedFileNames
    /\ merge_call.outcome = "returned" =>
          /\ \A c \in 1..Len(merge_call.globbed) :
                \A i \in 1..Len(merge_call.globbed[c]) :
                    /\ merge_call.globbed[c][i] \in DOMAIN uniform_files
                    /\ merge_call.globbed[c][i] \notin DOMAIN merged_files
          /\ \A line \in MergedLines : line.file \in DOMAIN uniform_files

\* gen_csv staged a file of the root, then loaded a file of a subdirectory
\* it visited after Compiled was there, and merge_csv merged the two.
C24_Witness ==
    /\ pc = "merge_csv"
    /\ merge_call.outcome = "returned"
    /\ Len(gen_call.read_from) = 2
    /\ gen_call.read_from[1] = directory.dirName
    /\ gen_call.read_from[2] # directory.dirName
    /\ Cardinality(DOMAIN staged) = 2
    /\ Cardinality(MergedLines) = 3

=============================================================================
